---- MODULE Spec2Model ----
(***************************************************************************)
(* A model of the starttls-backend checking engine.                        *)
(*                                                                         *)
(*   - Checker.CheckCSV (checker/totals.go): the producer goroutine, the   *)
(*     pool of worker goroutines, the closer goroutine and the collecting  *)
(*     loop, with the two unbuffered channels work and results and the     *)
(*     unbuffered channel done.                                            *)
(*   - ScanCache over SimpleStore (checker/cache.go).                      *)
(*                                                                         *)
(* An unbuffered Go channel hands a value over in one step in which the    *)
(* sender and one receiver take part, so each hand-over is one action.     *)
(* A send on a closed channel panics, and a panic or log.Fatal ends the    *)
(* process: no goroutine takes a step afterwards.                          *)
(* The worker goroutines are anonymous closures that capture nothing of    *)
(* their own, so the pool is the bag of the workers' local states.         *)
(***************************************************************************)
EXTENDS Integers, Sequences, FiniteSets, Bags, TLC

VARIABLES
    \* ---- CheckCSV: inputs
    env,            \* os.Getenv("CONNECTION_POOL_SIZE"), a sequence of characters
    input,          \* what domains.Read() returns, call after call, before io.EOF
    domainColumn,   \* the domainColumn argument (0-based)
    \* ---- CheckCSV: the main goroutine
    mainPc,         \* "start" | "spawn" | "range" | "handle" | "returned"
    poolSize,       \* the local poolSize (0 before line 67 ran)
    spawnI,         \* i of the loop at line 91
    cur,            \* the DomainResult r of the loop at line 108
    inHandle,       \* HandleDomain calls begun and not yet returned
    \* ---- CheckCSV: the producer goroutine
    prodPc,         \* "none" | "read" | "send" | "exit"
    prodItem,       \* data[domainColumn] being sent on work
    readPos,        \* Read calls that returned a record or an error so far
    workClosed,     \* close(work) has run
    \* ---- CheckCSV: the workers and the closer
    workers,        \* bag of [pc, d]: "recv" | "check" | "send" | "done" | "exit",
                    \* d the domain a worker checks or whose result it sends
    closerPc,       \* "none" | "recv" | "exit"
    closerI,        \* i of the loop at line 102
    resultsClosed,  \* close(results) has run
    halt,           \* "run" | "fatal" (log.Fatal) | "panicIndex" | "panicClosed"
    \* ---- CheckCSV: what has happened so far (history)
    putWork,        \* bag of the domains sent on work
    checked,        \* bag of the domains CheckDomain was called with
    resultsPut,     \* bag of the domains whose result was sent on results
    handled,        \* bag of the domains whose result was passed to HandleDomain
    \* ---- ScanCache
    store,          \* SimpleStore.m: a function from the stored hostnames
    expireTime,     \* ScanCache.ExpireTime
    now,            \* time.Now()
    lastOp,         \* the last call on the cache and what it returned
    lastPut,        \* history: hostname -> the result of the latest put for it
    replaced,       \* history: the hostnames whose stored result a put replaced
    \* ---- Validator
    vName,          \* Validator.Name
    vStore,         \* mockDomainPolicyStore.hostnames: domain -> hostnames
    vPc,            \* "idle" | "wait" | "loop" | "checked"
    vTodo,          \* the domains of this tick that are still to be checked
    vCall,          \* the check function's last call: domain, hostnames, verdict
    vCalls,         \* history: the check function's calls of this tick
    vReported,      \* history: the domains reported in this tick
    vReports,       \* history: every (name, domain, verdict) given to the reporter
    vTicks,         \* history: ticks so far, counted up to MaxTicksCounted
    vEvent,         \* history: what the last step did
    \* ---- ScanCache over a ScanStore that can fail
    lastStore,      \* history: what the ScanStore returned to the last call
    \* ---- SimpleStore called from several goroutines
    ssM,            \* SimpleStore.m
    ssWriter,       \* SimpleStore.mu: the goroutine that holds the lock, or 0
    ssReaders,      \* SimpleStore.mu: the goroutines that hold the read lock
    ssProc,         \* each goroutine's position in its call and the call's locals
    ssDone,         \* history: the (hostname, result) of every put whose write ended
    ssLast,         \* history: the last call that returned, and what it returned
    \* ---- Domain.IsQueueable
    iqIn,           \* the domain, and what the stores and the list answer for it
    iqOut,          \* what IsQueueable returned: "none" before the call
    \* ---- the queue workflow
    qEnv,           \* per domain: whether it has a passing scan, whether it is on the list
    qDb,            \* the database: the domains' states, the tokens, the next token
    qIssued,        \* history: every (token, domain) a queue request has issued
    qRedeemed,      \* history: the tokens redeemed, with the number of times
    qLast,          \* history: the last request and its response
    \* ---- the DomainResult of one domain check
    drIn,           \* what the MX lookup, the hostname checks and the MTA-STS check give
    drOut,          \* the DomainResult; NoDomainResult before the check
    \* ---- Domain.PolicyListCheck
    plStore,        \* the DomainStore: the (name, state) records it holds
    plList,         \* the policy list: the names it has
    plOut,          \* the checker.Result returned; NoCheckResult before the call
    \* ---- DomainTotals
    totals,         \* the DomainTotals: Attempted, WithMXs, MTASTSTesting, MTASTSEnforce
    handledResults  \* history: the results given to HandleDomain, in order

csvVars == <<env, input, domainColumn, mainPc, poolSize, spawnI, cur, inHandle,
             prodPc, prodItem, readPos, workClosed, workers, closerPc, closerI,
             resultsClosed, halt, putWork, checked, resultsPut, handled>>

cacheVars == <<store, expireTime, now, lastOp, lastPut, replaced>>

valVars == <<vName, vStore, vPc, vTodo, vCall, vCalls, vReported, vReports, vTicks,
             vEvent>>

durVars == <<lastStore>>

ssVars == <<ssM, ssWriter, ssReaders, ssProc, ssDone, ssLast>>

iqVars == <<iqIn, iqOut>>

qVars == <<qEnv, qDb, qIssued, qRedeemed, qLast>>

\* The variables of the components other than CheckCSV and the ScanCache.
drVars == <<drIn, drOut>>

plVars == <<plStore, plList, plOut>>

dtVars == <<totals, handledResults>>

\* The variables of the components other than CheckCSV and the ScanCache.
otherVars == <<valVars, durVars, ssVars, iqVars, qVars, drVars, plVars, dtVars>>

\* otherVars without the variables of one component.
exceptVal == <<durVars, ssVars, iqVars, qVars, drVars, plVars, dtVars>>
exceptDur == <<valVars, ssVars, iqVars, qVars, drVars, plVars, dtVars>>
exceptSs == <<valVars, durVars, iqVars, qVars, drVars, plVars, dtVars>>
exceptIq == <<valVars, durVars, ssVars, qVars, drVars, plVars, dtVars>>
exceptQ == <<valVars, durVars, ssVars, iqVars, drVars, plVars, dtVars>>
exceptDr == <<valVars, durVars, ssVars, iqVars, qVars, plVars, dtVars>>
exceptPl == <<valVars, durVars, ssVars, iqVars, qVars, drVars, dtVars>>
exceptDt == <<valVars, durVars, ssVars, iqVars, qVars, drVars, plVars>>

vars == <<csvVars, cacheVars, otherVars>>

----------------------------------------------------------------------------
(* Bounds of the model *)

\* Longest input: the number of Read calls before io.EOF.
MaxRows == 3

\* Longest input of the runs checked for termination.
MaxFairRows == 2

\* Largest domainColumn argument.
MaxColumn == 1

\* The clock runs from 0 to MaxTime.
MaxTime == 3

\* Largest ExpireTime.
MaxExpire == 2

\* The HandleDomain calls made on one DomainTotals.
MaxHandled == 3

\* The tokens the token store issues in one run.
MaxTokens == 3

\* The longest list of preferred hostnames of a scan.
MaxPreferred == 2

\* The longest list of MX patterns of a domain.
MaxMXs == 2

\* The goroutines that call the SimpleStore.
NumProcs == 2

\* The validator's ticks are counted up to this number.
MaxTicksCounted == 2

----------------------------------------------------------------------------
(* CheckCSV: values *)

defaultPoolSize == 16

NoDomain == ""

\* A record of the CSV file: a sequence of fields.
Rows == {<< >>, <<"a">>, <<"b", "a">>}

\* What one domains.Read() call returns before io.EOF: a record and a nil
\* error, or an error that is not io.EOF.
ReadOutcomes == [data : Rows, err : {"nil"}] \cup {[data |-> << >>, err |-> "other"]}

RECURSIVE SeqsUpTo(_, _)
SeqsUpTo(S, n) ==
    IF n = 0 THEN {<< >>}
    ELSE LET shorter == SeqsUpTo(S, n - 1)
         IN  shorter \cup {Append(s, x) : s \in {t \in shorter : Len(t) = n - 1}, x \in S}

Inputs == SeqsUpTo(ReadOutcomes, MaxRows)

\* Values of CONNECTION_POOL_SIZE; << >> is the unset variable (Getenv gives "").
EnvValues == {<< >>, <<"x">>, <<"0">>, <<"-", "1">>, <<"1">>, <<"2">>, <<"+", "3">>,
              <<"2", "x">>}

Digit == {"0", "1", "2", "3", "4", "5", "6", "7", "8", "9"}

DigitVal == ("0" :> 0) @@ ("1" :> 1) @@ ("2" :> 2) @@ ("3" :> 3) @@ ("4" :> 4) @@
            ("5" :> 5) @@ ("6" :> 6) @@ ("7" :> 7) @@ ("8" :> 8) @@ ("9" :> 9)

RECURSIVE DigitsValue(_)
DigitsValue(s) ==
    IF s = << >> THEN 0
    ELSE 10 * DigitsValue(SubSeq(s, 1, Len(s) - 1)) + DigitVal[s[Len(s)]]

\* strconv.Atoi: an optional sign, then one or more decimal digits.
Atoi(s) ==
    LET signed == s # << >> /\ s[1] \in {"+", "-"}
        body   == IF signed THEN Tail(s) ELSE s
        ok     == body # << >> /\ \A i \in 1..Len(body) : body[i] \in Digit
        v      == IF ok THEN DigitsValue(body) ELSE 0
    IN  [n |-> IF signed /\ s[1] = "-" THEN 0 - v ELSE v, err |-> ~ok]

\* A slip: zero is taken as a pool size.
PoolSizeFromEnvZero(e) ==
    LET r == Atoi(e)
    IN  IF r.err \/ r.n < 0 THEN defaultPoolSize ELSE r.n

\* Lines 67-70: the pool size from the environment.
PoolSizeFromEnv(e) ==
    LET r == Atoi(e)
    IN  IF r.err \/ r.n <= 0 THEN defaultPoolSize ELSE r.n

\* A slip: a record of one field is passed over too.
RowHasDomainOffByOne(data) == Len(data) > 1

\* Line 83: a record with no field is passed over.
RowHasDomain(data) == Len(data) > 0

\* A worker goroutine's local state.
W(pc, d) == [pc |-> pc, d |-> d]

\* The DomainResult of a domain check: it carries the domain it was asked for.
CheckDomain(d) == [Domain |-> d]

NoResult == [Domain |-> NoDomain]

One(x) == SetToBag({x})

\* The pool with one worker in state from moved to state to.
Move(ws, from, to) == (ws (-) One(from)) (+) One(to)

----------------------------------------------------------------------------
(* ScanCache: values *)

Hostnames == {"h1", "h2"}

Statuses == {0, 1}

\* A HostnameResult: the probe's status and its Timestamp.
HostnameResults == [Status : Statuses, Timestamp : 0..MaxTime]

ZeroResult == [Status |-> 0, Timestamp |-> 0]

\* make(map[string]HostnameResult)
EmptyMap == [h \in {} |-> ZeroResult]

\* SimpleStore.GetHostnameScan: the map's value, or the zero value and an error.
SimpleStoreGet(m, hostname) ==
    IF hostname \in DOMAIN m
    THEN [result |-> m[hostname], err |-> "nil"]
    ELSE [result |-> ZeroResult, err |-> "notfound"]

\* A slip: a hostname that has a scan keeps it.
SimpleStorePutIfAbsent(m, hostname, result) ==
    [h \in DOMAIN m \cup {hostname} |-> IF h \in DOMAIN m THEN m[h] ELSE result]

\* SimpleStore.PutHostnameScan: s.m[hostname] = result; the map afterwards.
SimpleStorePut(m, hostname, result) ==
    [h \in DOMAIN m \cup {hostname} |-> IF h = hostname THEN result ELSE m[h]]

\* time.Time.Sub, the Duration t - u. (Sub saturates at the ends of the range
\* of Duration, about 292 years; the ages here stay far inside it.)
Sub(t, u) == t - u

\* A slip: a scan as old as the window is expired too.
ExpiredAtBoundary(age, window) == age >= window

\* Line 29: the scan is older than the window.
Expired(age, window) == age > window

\* A slip: the store's answer is passed on without the freshness test.
ScanCacheGetNoExpiry(r, window, t) == r

\* ScanCache.GetHostnameScan, given what the store's GetHostnameScan returned.
ScanCacheGet(r, window, t) ==
    IF r.err # "nil" THEN r
    ELSE IF Expired(Sub(t, r.result.Timestamp), window)
    THEN [result |-> r.result, err |-> "expired"]
    ELSE [result |-> r.result, err |-> "nil"]

\* A slip: the store's error is dropped.
ScanCachePutSwallowed(storeErr) == "nil"

\* ScanCache.PutHostnameScan, given what the store's PutHostnameScan returned.
ScanCachePut(storeErr) == storeErr

\* MakeSimpleCache(expiryTime): an empty SimpleStore behind a ScanCache.
MakeSimpleCache(expiryTime) == [m |-> EmptyMap, ExpireTime |-> expiryTime]

NoOp == [op |-> "none", hostname |-> "", result |-> ZeroResult, err |-> "nil", at |-> 0]

CacheIdle ==
    /\ store = EmptyMap
    /\ expireTime = 0
    /\ now = 0
    /\ lastOp = NoOp
    /\ lastPut = EmptyMap
    /\ replaced = {}

----------------------------------------------------------------------------
(* Validator: values *)

NoCall == [domain |-> "", hostnames |-> << >>, verdict |-> [Status |-> 0]]

NoEvent == [kind |-> "none", domain |-> ""]

\* No Validator has been made.
ValidatorIdle ==
    /\ vName = ""
    /\ vStore = [d \in {} |-> << >>]
    /\ vPc = "idle"
    /\ vTodo = {}
    /\ vCall = NoCall
    /\ vCalls = {}
    /\ vReported = {}
    /\ vReports = {}
    /\ vTicks = 0
    /\ vEvent = NoEvent

\* No ScanStore has been called.
NoAnswer == [result |-> ZeroResult, err |-> "nil"]

Procs == 1..NumProcs

\* The results the goroutines put.
PutResults == {[Status |-> st, Timestamp |-> 0] : st \in Statuses}

\* What a read sees in a map entry whose write has begun and not ended.
Torn == [Status |-> -1, Timestamp |-> -1]

\* A goroutine that is in no call.
IdleProc == [pc |-> "idle", hostname |-> "", result |-> ZeroResult, err |-> "nil"]

NoReturn == [op |-> "none", hostname |-> "", result |-> ZeroResult, err |-> "nil"]

\* A new SimpleStore that nobody has called.
SimpleStoreIdle ==
    /\ ssM = EmptyMap
    /\ ssWriter = 0
    /\ ssReaders = {}
    /\ ssProc = [p \in Procs |-> IdleProc]
    /\ ssDone = {}
    /\ ssLast = NoReturn

DurableIdle == lastStore = NoAnswer

\* A scan: Data.Status, Data.PreferredHostnames and whether the scan's
\* MTA-STS result is one of a working MTA-STS policy.
NoScan == [Status |-> 0, PreferredHostnames |-> << >>, mtasts |-> FALSE]

NoQuery ==
    [Name |-> "", MTASTSMode |-> "", MXs |-> << >>, scan |-> NoScan,
     scanErr |-> "nil", onList |-> FALSE, enforceErr |-> "nil"]

\* IsQueueable has not been called.
QueueableIdle ==
    /\ iqIn = NoQuery
    /\ iqOut = "none"

\* The domains of the queue requests.
QDomains == {"example.com", "eff.org"}

\* A domain that has no token.
NoTokenRow == [token |-> 0, used |-> FALSE]

\* A database without domains and tokens; "" is the state of a domain that
\* has no record.
EmptyDb ==
    [state |-> [d \in QDomains |-> ""], tokens |-> [d \in QDomains |-> NoTokenRow],
     next |-> 1]

NoRequest ==
    [op |-> "none", domain |-> "", token |-> 0, status |-> 0, body |-> "", err |-> "nil"]

\* No request has been made.
QueueIdle ==
    /\ qEnv = [d \in QDomains |-> [scanned |-> FALSE, onList |-> FALSE]]
    /\ qDb = EmptyDb
    /\ qIssued = {}
    /\ qRedeemed = EmptyBag
    /\ qLast = NoRequest

\* No MTA-STS result: checkMTASTS returned nil.
NoMTASTS == [found |-> FALSE, consistent |-> TRUE, severity |-> 0]

NoCheckInput == [hostnames |-> [h \in {} |-> 0], mtasts |-> NoMTASTS]

NoDomainResult ==
    [made |-> FALSE, HostnameResults |-> [h \in {} |-> 0], MTASTSResult |-> NoMTASTS,
     Status |-> 0]

\* No domain has been checked.
DomainResultIdle ==
    /\ drIn = NoCheckInput
    /\ drOut = NoDomainResult

\* A checker.Result that no builder has been called on; sets counts the
\* calls of Success, Warning and Failure on it.
NoCheckResult == [domain |-> "", Name |-> "", Status |-> "", Message |-> "", sets |-> 0]

\* PolicyListCheck has not been called.
PolicyListIdle ==
    /\ plStore = {}
    /\ plList = {}
    /\ plOut = NoCheckResult

\* A DomainTotals that has handled nothing.
NewTotals ==
    [Attempted |-> 0, WithMXs |-> 0, MTASTSTesting |-> << >>, MTASTSEnforce |-> << >>]

TotalsIdle ==
    /\ totals = NewTotals
    /\ handledResults = << >>

OthersIdle ==
    /\ ValidatorIdle
    /\ DurableIdle
    /\ SimpleStoreIdle
    /\ QueueableIdle
    /\ QueueIdle
    /\ DomainResultIdle
    /\ PolicyListIdle
    /\ TotalsIdle

----------------------------------------------------------------------------
(* CheckCSV: the initial state and the steps *)

CSVIdle ==
    /\ mainPc = "start"
    /\ poolSize = 0
    /\ spawnI = 0
    /\ cur = NoResult
    /\ inHandle = 0
    /\ prodPc = "none"
    /\ prodItem = NoDomain
    /\ readPos = 0
    /\ workClosed = FALSE
    /\ workers = EmptyBag
    /\ closerPc = "none"
    /\ closerI = 0
    /\ resultsClosed = FALSE
    /\ halt = "run"
    /\ putWork = EmptyBag
    /\ checked = EmptyBag
    /\ resultsPut = EmptyBag
    /\ handled = EmptyBag

Init ==
    /\ env \in EnvValues
    /\ input \in Inputs
    /\ domainColumn \in 0..MaxColumn
    /\ CSVIdle
    /\ CacheIdle
    /\ OthersIdle

\* Lines 67-88: read the pool size, make the channels, start the producer.
Start ==
    /\ halt = "run"
    /\ mainPc = "start"
    /\ poolSize' = PoolSizeFromEnv(env)
    /\ mainPc' = "spawn"
    /\ prodPc' = "read"
    /\ UNCHANGED <<env, input, domainColumn, spawnI, cur, inHandle, prodItem, readPos,
                   workClosed, workers, closerPc, closerI, resultsClosed, halt,
                   putWork, checked, resultsPut, handled>>
    /\ UNCHANGED cacheVars
    /\ UNCHANGED otherVars

\* A slip: the loop runs one turn too many.
SpawnWorkerOneMore ==
    /\ halt = "run"
    /\ mainPc = "spawn"
    /\ spawnI <= poolSize
    /\ workers' = workers (+) One(W("recv", NoDomain))
    /\ spawnI' = spawnI + 1
    /\ UNCHANGED <<env, input, domainColumn, mainPc, poolSize, cur, inHandle, prodPc,
                   prodItem, readPos, workClosed, closerPc, closerI, resultsClosed,
                   halt, putWork, checked, resultsPut, handled>>
    /\ UNCHANGED cacheVars
    /\ UNCHANGED otherVars

\* Lines 91-98: one turn of the loop that starts the workers.
SpawnWorker ==
    /\ halt = "run"
    /\ mainPc = "spawn"
    /\ spawnI < poolSize
    /\ workers' = workers (+) One(W("recv", NoDomain))
    /\ spawnI' = spawnI + 1
    /\ UNCHANGED <<env, input, domainColumn, mainPc, poolSize, cur, inHandle, prodPc,
                   prodItem, readPos, workClosed, closerPc, closerI, resultsClosed,
                   halt, putWork, checked, resultsPut, handled>>
    /\ UNCHANGED cacheVars
    /\ UNCHANGED otherVars

\* Lines 91, 100-106: the loop ends, the closer goroutine is started and the
\* main goroutine reaches the range over results.
StartCloser ==
    /\ halt = "run"
    /\ mainPc = "spawn"
    /\ ~(spawnI < poolSize)
    /\ closerPc' = "recv"
    /\ mainPc' = "range"
    /\ UNCHANGED <<env, input, domainColumn, poolSize, spawnI, cur, inHandle, prodPc,
                   prodItem, readPos, workClosed, workers, closerI, resultsClosed,
                   halt, putWork, checked, resultsPut, handled>>
    /\ UNCHANGED cacheVars
    /\ UNCHANGED otherVars

\* A slip: the failing read is passed over and reading goes on.
ReadFailedSkip == UNCHANGED <<prodPc, prodItem, workClosed, halt>>

\* Lines 78-80: an error that is not io.EOF: log.Fatal(err) ends the process.
ReadFailed ==
    /\ halt' = "fatal"
    /\ UNCHANGED <<prodPc, prodItem, workClosed>>

\* Lines 76-87: one domains.Read() and what the producer does with it.
ProducerRead ==
    /\ halt = "run"
    /\ prodPc = "read"
    /\ IF readPos = Len(input)
       THEN \* io.EOF: break, close(work)
            /\ workClosed' = TRUE
            /\ prodPc' = "exit"
            /\ UNCHANGED <<readPos, prodItem, halt>>
       ELSE LET r == input[readPos + 1]
            IN  /\ readPos' = readPos + 1
                /\ IF r.err # "nil"
                   THEN ReadFailed
                   ELSE IF RowHasDomain(r.data)
                   THEN IF domainColumn < Len(r.data)
                        THEN /\ prodPc' = "send"
                             /\ prodItem' = r.data[domainColumn + 1]
                             /\ UNCHANGED <<workClosed, halt>>
                        ELSE \* index out of range
                             /\ halt' = "panicIndex"
                             /\ UNCHANGED <<prodPc, prodItem, workClosed>>
                   ELSE UNCHANGED <<prodPc, prodItem, workClosed, halt>>
    /\ UNCHANGED <<env, input, domainColumn, mainPc, poolSize, spawnI, cur, inHandle,
                   workers, closerPc, closerI, resultsClosed, putWork, checked,
                   resultsPut, handled>>
    /\ UNCHANGED cacheVars
    /\ UNCHANGED otherVars

\* A slip: a domain is handed out only while no CheckDomain call is running.
WorkHandOverLockstep ==
    /\ halt = "run"
    /\ prodPc = "send"
    /\ \A w \in BagToSet(workers) : w.pc \notin {"check", "hung"}
    /\ IF workClosed
       THEN /\ halt' = "panicClosed"
            /\ UNCHANGED <<prodPc, prodItem, workers, putWork, checked>>
       ELSE /\ BagIn(W("recv", NoDomain), workers)
            /\ workers' = Move(workers, W("recv", NoDomain), W("check", prodItem))
            /\ putWork' = putWork (+) One(prodItem)
            /\ checked' = checked (+) One(prodItem)
            /\ prodPc' = "read"
            /\ prodItem' = NoDomain
            /\ UNCHANGED halt
    /\ UNCHANGED <<env, input, domainColumn, mainPc, poolSize, spawnI, cur, inHandle,
                   readPos, workClosed, closerPc, closerI, resultsClosed, resultsPut,
                   handled>>
    /\ UNCHANGED cacheVars
    /\ UNCHANGED otherVars

\* Lines 84, 93-94: work <- data[domainColumn] meets a worker's receive, and the
\* worker calls CheckDomain.
WorkHandOver ==
    /\ halt = "run"
    /\ prodPc = "send"
    /\ IF workClosed
       THEN \* send on a closed channel
            /\ halt' = "panicClosed"
            /\ UNCHANGED <<prodPc, prodItem, workers, putWork, checked>>
       ELSE /\ BagIn(W("recv", NoDomain), workers)
            /\ workers' = Move(workers, W("recv", NoDomain), W("check", prodItem))
            /\ putWork' = putWork (+) One(prodItem)
            /\ checked' = checked (+) One(prodItem)
            /\ prodPc' = "read"
            /\ prodItem' = NoDomain
            /\ UNCHANGED halt
    /\ UNCHANGED <<env, input, domainColumn, mainPc, poolSize, spawnI, cur, inHandle,
                   readPos, workClosed, closerPc, closerI, resultsClosed, resultsPut,
                   handled>>
    /\ UNCHANGED cacheVars
    /\ UNCHANGED otherVars

\* A slip: the worker takes the next domain without sending the result.
CheckReturnDrop ==
    /\ halt = "run"
    /\ \E w \in BagToSet(workers) :
          /\ w.pc = "check"
          /\ workers' = Move(workers, w, W("recv", NoDomain))
    /\ UNCHANGED <<env, input, domainColumn, mainPc, poolSize, spawnI, cur, inHandle,
                   prodPc, prodItem, readPos, workClosed, closerPc, closerI,
                   resultsClosed, halt, putWork, checked, resultsPut, handled>>
    /\ UNCHANGED cacheVars
    /\ UNCHANGED otherVars

\* Line 94: CheckDomain returns and the worker reaches the send on results.
CheckReturn ==
    /\ halt = "run"
    /\ \E w \in BagToSet(workers) :
          /\ w.pc = "check"
          /\ workers' = Move(workers, w, W("send", w.d))
    /\ UNCHANGED <<env, input, domainColumn, mainPc, poolSize, spawnI, cur, inHandle,
                   prodPc, prodItem, readPos, workClosed, closerPc, closerI,
                   resultsClosed, halt, putWork, checked, resultsPut, handled>>
    /\ UNCHANGED cacheVars
    /\ UNCHANGED otherVars

\* Line 93: the range over work ends once work is closed.
WorkerRangeEnd ==
    /\ halt = "run"
    /\ workClosed
    /\ BagIn(W("recv", NoDomain), workers)
    /\ workers' = Move(workers, W("recv", NoDomain), W("done", NoDomain))
    /\ UNCHANGED <<env, input, domainColumn, mainPc, poolSize, spawnI, cur, inHandle,
                   prodPc, prodItem, readPos, workClosed, closerPc, closerI,
                   resultsClosed, halt, putWork, checked, resultsPut, handled>>
    /\ UNCHANGED cacheVars
    /\ UNCHANGED otherVars

\* A slip: HandleDomain(r) is started as a goroutine and the loop goes on.
CollectAsync(d) ==
    /\ mainPc' = "range"
    /\ cur' = CheckDomain(d)
    /\ inHandle' = inHandle + 1
    /\ handled' = handled (+) One(d)

\* Lines 108-109: the main goroutine has received r, the result of the check of
\* domain d, and calls HandleDomain(r).
Collect(d) ==
    /\ mainPc' = "handle"
    /\ cur' = CheckDomain(d)
    /\ inHandle' = inHandle + 1
    /\ handled' = handled (+) One(d)

\* Lines 94, 108-109: a worker's send on results meets the collector's receive.
ResultHandOver ==
    /\ halt = "run"
    /\ \E w \in BagToSet(workers) :
          /\ w.pc = "send"
          /\ IF resultsClosed
             THEN \* send on a closed channel
                  /\ halt' = "panicClosed"
                  /\ UNCHANGED <<workers, resultsPut, mainPc, cur, inHandle, handled>>
             ELSE /\ mainPc = "range"
                  /\ workers' = Move(workers, w, W("recv", NoDomain))
                  /\ resultsPut' = resultsPut (+) One(w.d)
                  /\ Collect(w.d)
                  /\ UNCHANGED halt
    /\ UNCHANGED <<env, input, domainColumn, poolSize, spawnI, prodPc, prodItem,
                   readPos, workClosed, closerPc, closerI, resultsClosed, putWork,
                   checked>>
    /\ UNCHANGED cacheVars
    /\ UNCHANGED otherVars

\* Line 109: HandleDomain returns.
HandleReturn ==
    /\ halt = "run"
    /\ mainPc = "handle"
    /\ mainPc' = "range"
    /\ cur' = NoResult
    /\ inHandle' = inHandle - 1
    /\ UNCHANGED <<env, input, domainColumn, poolSize, spawnI, prodPc, prodItem,
                   readPos, workClosed, workers, closerPc, closerI, resultsClosed,
                   halt, putWork, checked, resultsPut, handled>>
    /\ UNCHANGED cacheVars
    /\ UNCHANGED otherVars

\* Lines 96, 103: a worker's send on done meets the closer's receive.
DoneHandOver ==
    /\ halt = "run"
    /\ closerPc = "recv"
    /\ closerI < poolSize
    /\ BagIn(W("done", NoDomain), workers)
    /\ workers' = Move(workers, W("done", NoDomain), W("exit", NoDomain))
    /\ closerI' = closerI + 1
    /\ UNCHANGED <<env, input, domainColumn, mainPc, poolSize, spawnI, cur, inHandle,
                   prodPc, prodItem, readPos, workClosed, closerPc, resultsClosed,
                   halt, putWork, checked, resultsPut, handled>>
    /\ UNCHANGED cacheVars
    /\ UNCHANGED otherVars

\* A slip: the closer's loop is one turn short.
CloserDoneOffByOne == ~(closerI < poolSize - 1)

\* A slip: the closer's loop never ends.
CloserDoneNever == FALSE

\* Line 102: the closer has received from every worker.
CloserDone == ~(closerI < poolSize)

\* Lines 102, 105: the closer's loop ends and it closes results.
CloseResults ==
    /\ halt = "run"
    /\ closerPc = "recv"
    /\ CloserDone
    /\ resultsClosed' = TRUE
    /\ closerPc' = "exit"
    /\ UNCHANGED <<env, input, domainColumn, mainPc, poolSize, spawnI, cur, inHandle,
                   prodPc, prodItem, readPos, workClosed, workers, closerI, halt,
                   putWork, checked, resultsPut, handled>>
    /\ UNCHANGED cacheVars
    /\ UNCHANGED otherVars

\* Lines 108, 111: the range over results ends and CheckCSV returns.
Return ==
    /\ halt = "run"
    /\ mainPc = "range"
    /\ resultsClosed
    /\ mainPc' = "returned"
    /\ UNCHANGED <<env, input, domainColumn, poolSize, spawnI, cur, inHandle, prodPc,
                   prodItem, readPos, workClosed, workers, closerPc, closerI,
                   resultsClosed, halt, putWork, checked, resultsPut, handled>>
    /\ UNCHANGED cacheVars
    /\ UNCHANGED otherVars

Next ==
    \/ Start
    \/ SpawnWorker
    \/ StartCloser
    \/ ProducerRead
    \/ WorkHandOver
    \/ CheckReturn
    \/ WorkerRangeEnd
    \/ ResultHandOver
    \/ HandleReturn
    \/ DoneHandOver
    \/ CloseResults
    \/ Return

Spec == Init /\ [][Next]_vars

\* The runs checked for termination: pool sizes 1, 2 and the default.
InitFair ==
    /\ env \in {<< >>, <<"1">>, <<"2">>}
    /\ input \in SeqsUpTo(ReadOutcomes, MaxFairRows)
    /\ domainColumn \in 0..MaxColumn
    /\ CSVIdle
    /\ CacheIdle
    /\ OthersIdle

\* The Go scheduler runs every goroutine that can take a step, and every
\* CheckDomain and HandleDomain call returns: some enabled step is taken.
FairSpec == InitFair /\ [][Next]_vars /\ WF_vars(Next)

----------------------------------------------------------------------------
(* CheckCSV: the claims *)

Domains == {"a", "b"}

\* The reads among the first n that gave a record with at least one field.
NonEmptyReads(n) ==
    {i \in 1..n : input[i].err = "nil" /\ Len(input[i].data) > 0}

\* The reads among the first n whose record has domain d in the domain column.
ReadsOf(d, n) ==
    {i \in NonEmptyReads(n) :
        Len(input[i].data) > domainColumn /\ input[i].data[domainColumn + 1] = d}

\* The reads that failed with an error other than io.EOF.
FailedReads == {i \in 1..Len(input) : input[i].err # "nil"}

\* The number of workers that hold domain d: its check runs or its result waits.
InFlight(d) == CopiesIn(W("check", d), workers) + CopiesIn(W("send", d), workers)

AllTerminated ==
    /\ halt = "run"
    /\ mainPc = "returned"
    /\ prodPc = "exit"
    /\ closerPc = "exit"
    /\ BagCardinality(workers) = poolSize
    /\ CopiesIn(W("exit", NoDomain), workers) = poolSize

\* C1: a run of CheckCSV that reaches end-of-input and returns has made exactly
\* N HandleDomain calls, N the number of non-empty rows, for every pool size
\* (1, 2, 3 and the default 16) and every interleaving.
C1_ExactlyNCalls ==
    mainPc = "returned" =>
        BagCardinality(handled) = Cardinality(NonEmptyReads(Len(input)))

C1_Witness ==
    /\ mainPc = "returned"
    /\ poolSize = 16
    /\ Cardinality(NonEmptyReads(Len(input))) >= 2
    /\ BagCardinality(handled) >= 2

\* C2: at most one HandleDomain call is in progress in every reachable state.
C2_HandleDomainSequential == inHandle <= 1

\* A HandleDomain call is in progress while another worker has a result ready.
C2_Witness ==
    /\ inHandle = 1
    /\ mainPc = "handle"
    /\ poolSize >= 2
    /\ \E d \in Domains : CopiesIn(W("send", d), workers) >= 1

\* C3: nothing is duplicated or lost on either channel. For every domain d:
\* the records read so far that hold d are those sent on work plus the one the
\* producer is sending; every domain sent on work was checked once; every
\* domain checked is held by a worker or its result was sent on results; every
\* result sent on results was handled once; and when CheckCSV returns the
\* domains handled are the domains of the input, with their multiplicities.
C3_NoDuplicateNoLoss ==
    \A d \in Domains :
        /\ Cardinality(ReadsOf(d, readPos))
              = CopiesIn(d, putWork) + (IF prodPc = "send" /\ prodItem = d THEN 1 ELSE 0)
        /\ CopiesIn(d, checked) = CopiesIn(d, putWork)
        /\ CopiesIn(d, checked) = CopiesIn(d, resultsPut) + InFlight(d)
        /\ CopiesIn(d, handled) = CopiesIn(d, resultsPut)
        /\ mainPc = "returned" =>
              CopiesIn(d, handled) = Cardinality(ReadsOf(d, Len(input)))

\* The same domain twice in the input, both handled, with more than one worker.
C3_Witness ==
    /\ mainPc = "returned"
    /\ poolSize >= 2
    /\ \E d \in Domains : CopiesIn(d, handled) = 2 /\ Cardinality(ReadsOf(d, Len(input))) = 2

\* Every read before end-of-input succeeds and every record that has a field
\* has one in the domain column.
C4_GoodInput ==
    /\ FailedReads = {}
    /\ \A i \in NonEmptyReads(Len(input)) : Len(input[i].data) > domainColumn

\* C4 as stated: for every finite input CheckCSV returns, so a state in which
\* no goroutine can take a step is one in which everything has terminated.
C4_Original == AllTerminated \/ ENABLED Next

\* C4, amended: for every input whose reads all succeed and whose non-empty
\* records all have a field in the domain column, no state short of termination
\* is a deadlock, and the producer, the workers, the closer and the collector
\* all terminate and CheckCSV returns.
C4_Terminates ==
    C4_GoodInput => ([](AllTerminated \/ ENABLED Next) /\ <>AllTerminated)

\* The run of an empty input with the default pool has terminated.
C4_Witness ==
    /\ AllTerminated
    /\ C4_GoodInput
    /\ Len(input) < poolSize
    /\ Cardinality(NonEmptyReads(Len(input))) = 0

\* C5: results is closed only after all poolSize workers have signalled on
\* done, work is closed only after the producer has sent the last row, and no
\* send on a closed channel happens.
C5_CloseOrder ==
    /\ resultsClosed =>
          /\ closerI = poolSize
          /\ CopiesIn(W("exit", NoDomain), workers) = poolSize
          /\ BagCardinality(workers) = poolSize
    /\ workClosed =>
          /\ readPos = Len(input)
          /\ prodPc = "exit"
          /\ BagCardinality(putWork) = Cardinality(NonEmptyReads(Len(input)))
    /\ halt # "panicClosed"

\* results is closed after two rows went through a pool of two workers.
C5_Witness ==
    /\ resultsClosed
    /\ workClosed
    /\ poolSize = 2
    /\ BagCardinality(resultsPut) = 2

\* The first read that fails, or one past the input when none does.
C9_FirstFailed ==
    IF FailedReads = {} THEN Len(input) + 1
    ELSE CHOOSE i \in FailedReads : \A j \in FailedReads : i <= j

\* C9: io.EOF ends the reading and closes work; any other read error ends the
\* whole run: nothing is read after the failing read, no row after it is sent
\* on work or checked, no goroutine takes a step after log.Fatal, and
\* CheckCSV does not return.
C9_AbortOnReadError ==
    /\ readPos <= C9_FirstFailed
    /\ \A d \in Domains :
          /\ CopiesIn(d, putWork) <= Cardinality(ReadsOf(d, C9_FirstFailed - 1))
          /\ CopiesIn(d, checked) <= Cardinality(ReadsOf(d, C9_FirstFailed - 1))
    /\ readPos \in FailedReads =>
          /\ halt = "fatal"
          /\ mainPc # "returned"
          /\ ~workClosed
          /\ ~ENABLED Next
    /\ halt = "fatal" => readPos \in FailedReads
    /\ prodPc = "exit" => (workClosed /\ readPos = Len(input) /\ FailedReads = {})
    /\ mainPc = "returned" => FailedReads = {}

\* The second read failed while the first row was with a worker, and a good
\* row follows the failing read.
C9_Witness ==
    /\ halt = "fatal"
    /\ readPos = 2
    /\ Len(input) = 3
    /\ input[3].err = "nil" /\ Len(input[3].data) > domainColumn
    /\ \E d \in Domains : InFlight(d) = 1

\* The values of CONNECTION_POOL_SIZE that parse as an integer > 0.
C10_Configured == (<<"1">> :> 1) @@ (<<"2">> :> 2) @@ (<<"+", "3">> :> 3)

\* C10: once read, the pool size is the configured value when that is an
\* integer > 0 and 16 otherwise (unset, not an integer, zero, negative); the
\* workers started are counted by the loop, never exceed the pool size, and
\* are exactly the pool size from the moment the loop has ended.
C10_PoolSize ==
    /\ mainPc # "start" =>
          poolSize = (IF env \in DOMAIN C10_Configured THEN C10_Configured[env] ELSE 16)
    /\ BagCardinality(workers) = spawnI
    /\ spawnI <= poolSize
    /\ mainPc \in {"range", "handle", "returned"} => BagCardinality(workers) = poolSize

\* A run with CONNECTION_POOL_SIZE=0 has returned with sixteen workers.
C10_Witness ==
    /\ env = <<"0">>
    /\ mainPc = "returned"
    /\ BagCardinality(workers) = 16

\* The workers that are inside a CheckDomain call.
Checking == [w \in {x \in BagToSet(workers) : x.pc = "check"} |-> workers[w]]

\* C19: the CheckDomain calls in progress never outnumber the pool, and once
\* the loop that starts the workers has ended the workers are as many as the
\* pool size, whatever the number of rows of the input.
C19_CallsWithinPool ==
    /\ BagCardinality(Checking) <= poolSize
    /\ mainPc \in {"range", "handle", "returned"} =>
          \A n \in 0..MaxRows : Len(input) = n => BagCardinality(workers) = poolSize

\* Every worker of a pool of two is inside a CheckDomain call while the
\* producer holds a third domain.
C19_Witness ==
    /\ poolSize = 2
    /\ BagCardinality(Checking) = 2
    /\ prodPc = "send"
    /\ Len(input) = 3

----------------------------------------------------------------------------
(* CheckCSV with a CheckDomain call that never returns *)

\* Line 94: one CheckDomain call, and only one, is a call that never returns.
CheckHangs ==
    /\ halt = "run"
    /\ \A w \in BagToSet(workers) : w.pc # "hung"
    /\ \E w \in BagToSet(workers) :
          /\ w.pc = "check"
          /\ workers' = Move(workers, w, W("hung", w.d))
    /\ UNCHANGED <<env, input, domainColumn, mainPc, poolSize, spawnI, cur, inHandle,
                   prodPc, prodItem, readPos, workClosed, closerPc, closerI,
                   resultsClosed, halt, putWork, checked, resultsPut, handled>>
    /\ UNCHANGED cacheVars
    /\ UNCHANGED otherVars

NextStall ==
    \/ Next
    \/ CheckHangs

\* Every goroutine that can take a step is run and every other call returns;
\* nothing makes a call hang.
SpecStall == InitFair /\ [][NextStall]_vars /\ WF_vars(Next)

\* The number of workers stalled in a call for domain d.
Hung(d) == CopiesIn(W("hung", d), workers)

\* Every read domain except the one of the stalled call has been given to
\* HandleDomain, and every worker but the stalled one has left the work loop.
C18_OthersDelivered ==
    /\ \A d \in Domains :
          CopiesIn(d, handled) + Hung(d) = Cardinality(ReadsOf(d, Len(input)))
    /\ \A w \in BagToSet(workers) : w.pc \in {"hung", "done", "exit"}
    /\ BagCardinality(workers) = poolSize

\* C18: with a pool of two or more workers and an input that is read through,
\* whether or not one CheckDomain call never returns, at most one worker is
\* stalled, and the run reaches and keeps a state in which every other domain
\* has been checked and given to HandleDomain.
C18_OneStuckCallStallsOneWorker ==
    (C4_GoodInput /\ PoolSizeFromEnv(env) >= 2) =>
        /\ [](\A d \in Domains : Hung(d) <= 1 /\ (Hung(d) = 1 => \A x \in Domains \ {d} : Hung(x) = 0))
        /\ <>[]C18_OthersDelivered

\* A call for one of two domains is stalled in a pool of two and the other
\* domain has been given to HandleDomain.
C18_Witness ==
    /\ poolSize = 2
    /\ Len(input) = 2
    /\ \E d \in Domains : Hung(d) = 1
    /\ BagCardinality(handled) = 1
    /\ C18_OthersDelivered

----------------------------------------------------------------------------
(* ScanCache: the initial state and the steps *)

CSVNotRun ==
    /\ env = << >>
    /\ input = << >>
    /\ domainColumn = 0
    /\ CSVIdle

InitCache ==
    /\ CSVNotRun
    /\ \E e \in 0..MaxExpire :
          /\ store = MakeSimpleCache(e).m
          /\ expireTime = MakeSimpleCache(e).ExpireTime
    /\ now = 0
    /\ lastOp = NoOp
    /\ lastPut = EmptyMap
    /\ replaced = {}
    /\ OthersIdle

\* Time passes.
Tick ==
    /\ now < MaxTime
    /\ now' = now + 1
    /\ UNCHANGED <<store, expireTime, lastOp, lastPut, replaced>>
    /\ UNCHANGED csvVars
    /\ UNCHANGED otherVars

\* ScanCache.PutHostnameScan(hostname, result) on the SimpleStore.
Put ==
    /\ \E hostname \in Hostnames, result \in HostnameResults :
          /\ store' = SimpleStorePut(store, hostname, result)
          /\ lastOp' = [op |-> "put", hostname |-> hostname, result |-> result,
                        err |-> "nil", at |-> now]
          /\ lastPut' = [h \in DOMAIN lastPut \cup {hostname} |->
                            IF h = hostname THEN result ELSE lastPut[h]]
          /\ replaced' = IF hostname \in DOMAIN lastPut /\ lastPut[hostname] # result
                         THEN replaced \cup {hostname}
                         ELSE replaced
    /\ UNCHANGED <<expireTime, now>>
    /\ UNCHANGED csvVars
    /\ UNCHANGED otherVars

\* ScanCache.GetHostnameScan(hostname) on the SimpleStore.
Get ==
    /\ \E hostname \in Hostnames :
          LET r == ScanCacheGet(SimpleStoreGet(store, hostname), expireTime, now)
          IN  lastOp' = [op |-> "get", hostname |-> hostname, result |-> r.result,
                         err |-> r.err, at |-> now]
    /\ UNCHANGED <<store, expireTime, now, lastPut, replaced>>
    /\ UNCHANGED csvVars
    /\ UNCHANGED otherVars

NextCache ==
    \/ Tick
    \/ Put
    \/ Get

SpecCache == InitCache /\ [][NextCache]_vars

----------------------------------------------------------------------------
(* ScanCache: the claims *)

\* The age, at the last call, of the scan stored for the hostname of that call.
AgeAtLastOp == lastOp.at - store[lastOp.hostname].Timestamp

\* C6: a get for a stored hostname is a hit iff now - Timestamp <= ExpireTime;
\* a get for a hostname that is not stored returns an error.
C6_HitIffFresh ==
    lastOp.op = "get" =>
        IF lastOp.hostname \in DOMAIN store
        THEN lastOp.err = "nil" <=> AgeAtLastOp <= expireTime
        ELSE lastOp.err # "nil"

\* A stored scan older than the window was asked for.
C6_Witness ==
    /\ lastOp.op = "get"
    /\ lastOp.hostname \in DOMAIN store
    /\ AgeAtLastOp > expireTime
    /\ lastOp.err = "expired"

\* C7 as stated: a stored scan is found only when its age is strictly within
\* the window; at an age equal to ExpireTime it is reported as not found.
C7_Original ==
    (lastOp.op = "get" /\ lastOp.hostname \in DOMAIN store /\ lastOp.err = "nil") =>
        AgeAtLastOp < expireTime

\* C7, amended: a scan is found only when its age is at most ExpireTime; a
\* stored scan whose age equals ExpireTime exactly is still found, and one
\* whose age is greater is reported as not found.
C7_FoundOnlyWithinWindow ==
    /\ (lastOp.op = "get" /\ lastOp.err = "nil") =>
          (lastOp.hostname \in DOMAIN store /\ AgeAtLastOp <= expireTime)
    /\ (lastOp.op = "get" /\ lastOp.hostname \in DOMAIN store) =>
          /\ AgeAtLastOp = expireTime => lastOp.err = "nil"
          /\ AgeAtLastOp > expireTime => lastOp.err # "nil"

\* A stored scan exactly as old as the window was asked for and found.
C7_Witness ==
    /\ lastOp.op = "get"
    /\ lastOp.hostname \in DOMAIN store
    /\ expireTime > 0
    /\ AgeAtLastOp = expireTime
    /\ lastOp.err = "nil"

\* C8: on a cache made by MakeSimpleCache, a get for a hostname returns the
\* result of the latest put for it, with no error when that result's age is
\* within the window.
C8_GetReturnsLatestPut ==
    (lastOp.op = "get" /\ lastOp.hostname \in DOMAIN lastPut) =>
        /\ lastOp.result = lastPut[lastOp.hostname]
        /\ lastOp.at - lastPut[lastOp.hostname].Timestamp <= expireTime =>
              lastOp.err = "nil"

\* A get with no error for a hostname whose scan a later put had replaced.
C8_Witness ==
    /\ lastOp.op = "get"
    /\ lastOp.hostname \in replaced
    /\ lastOp.err = "nil"
    /\ lastOp.result = lastPut[lastOp.hostname]

----------------------------------------------------------------------------
(* ScanCache over a ScanStore that can fail *)

\* What a ScanStore's GetHostnameScan may return: what the map holds, or an
\* error of its own with the zero value or with whatever the map holds.
StoreGetAnswers(m, hostname) ==
    {SimpleStoreGet(m, hostname)}
        \cup {[result |-> r, err |-> "io"] :
                 r \in {ZeroResult} \cup {m[h] : h \in DOMAIN m \cap {hostname}}}

\* What a ScanStore's PutHostnameScan may return.
StorePutAnswers == {"nil", "io"}

\* ScanCache.PutHostnameScan(hostname, result) on a ScanStore that can fail.
DurablePut ==
    /\ \E hostname \in Hostnames, result \in HostnameResults, storeErr \in StorePutAnswers :
          /\ store' = IF storeErr = "nil" THEN SimpleStorePut(store, hostname, result)
                      ELSE store
          /\ lastStore' = [result |-> result, err |-> storeErr]
          /\ lastOp' = [op |-> "put", hostname |-> hostname, result |-> result,
                        err |-> ScanCachePut(storeErr), at |-> now]
    /\ UNCHANGED <<expireTime, now, lastPut, replaced>>
    /\ UNCHANGED csvVars
    /\ UNCHANGED exceptDur

\* ScanCache.GetHostnameScan(hostname) on a ScanStore that can fail.
DurableGet ==
    /\ \E hostname \in Hostnames :
          \E answer \in StoreGetAnswers(store, hostname) :
              LET r == ScanCacheGet(answer, expireTime, now)
              IN  /\ lastStore' = answer
                  /\ lastOp' = [op |-> "get", hostname |-> hostname,
                                result |-> r.result, err |-> r.err, at |-> now]
    /\ UNCHANGED <<store, expireTime, now, lastPut, replaced>>
    /\ UNCHANGED csvVars
    /\ UNCHANGED exceptDur

NextDurable ==
    \/ Tick
    \/ DurablePut
    \/ DurableGet

SpecDurable == InitCache /\ [][NextDurable]_vars

\* C20: a get whose store call failed returns the store's result and the
\* store's error, not the verdict of the freshness test, and a put returns
\* what the store's put returned, error or none.
C20_StoreErrorPropagates ==
    /\ (lastOp.op = "get" /\ lastStore.err # "nil") =>
          /\ lastOp.err = lastStore.err
          /\ lastOp.result = lastStore.result
    /\ lastOp.op = "put" => lastOp.err = lastStore.err

\* The store failed a get with a result older than the window, and the get
\* returned the store's error.
C20_Witness ==
    /\ lastOp.op = "get"
    /\ lastStore.err = "io"
    /\ Expired(Sub(lastOp.at, lastStore.result.Timestamp), expireTime)
    /\ lastOp.err = "io"

----------------------------------------------------------------------------
(* SimpleStore called from several goroutines *)

\* A slip: GetHostnameScan reads without taking the read lock.
CanRLockAlways == TRUE

\* Line 48: s.mu.RLock() returns when no goroutine holds the lock and none
\* waits in Lock.
CanRLock ==
    /\ ssWriter = 0
    /\ \A q \in Procs : ssProc[q].pc # "wlock"

\* Line 59: s.mu.Lock() returns when no goroutine holds the lock or the read lock.
CanLock ==
    /\ ssWriter = 0
    /\ ssReaders = {}

\* Lines 47-48: GetHostnameScan(hostname) is called and takes the read lock.
GetRLock(p) ==
    /\ ssProc[p].pc = "idle"
    /\ CanRLock
    /\ \E hostname \in Hostnames :
          ssProc' = [ssProc EXCEPT ![p] = [pc |-> "read", hostname |-> hostname,
                                           result |-> ZeroResult, err |-> "nil"]]
    /\ ssReaders' = ssReaders \cup {p}
    /\ UNCHANGED <<ssM, ssWriter, ssDone, ssLast>>
    /\ UNCHANGED <<csvVars, cacheVars>>
    /\ UNCHANGED exceptSs

\* Line 50: result, ok := s.m[hostname]
GetRead(p) ==
    /\ ssProc[p].pc = "read"
    /\ ssProc' = [ssProc EXCEPT ![p].pc = "runlock",
                                ![p].result = SimpleStoreGet(ssM, ssProc[p].hostname).result,
                                ![p].err = SimpleStoreGet(ssM, ssProc[p].hostname).err]
    /\ UNCHANGED <<ssM, ssWriter, ssReaders, ssDone, ssLast>>
    /\ UNCHANGED <<csvVars, cacheVars>>
    /\ UNCHANGED exceptSs

\* Lines 49, 51-54: the deferred RUnlock runs and the call returns.
GetRUnlock(p) ==
    /\ ssProc[p].pc = "runlock"
    /\ ssReaders' = ssReaders \ {p}
    /\ ssLast' = [op |-> "get", hostname |-> ssProc[p].hostname,
                  result |-> ssProc[p].result, err |-> ssProc[p].err]
    /\ ssProc' = [ssProc EXCEPT ![p] = IdleProc]
    /\ UNCHANGED <<ssM, ssWriter, ssDone>>
    /\ UNCHANGED <<csvVars, cacheVars>>
    /\ UNCHANGED exceptSs

\* Lines 58-59: PutHostnameScan(hostname, result) is called and waits in Lock.
PutCall(p) ==
    /\ ssProc[p].pc = "idle"
    /\ \E hostname \in Hostnames, result \in PutResults :
          ssProc' = [ssProc EXCEPT ![p] = [pc |-> "wlock", hostname |-> hostname,
                                           result |-> result, err |-> "nil"]]
    /\ UNCHANGED <<ssM, ssWriter, ssReaders, ssDone, ssLast>>
    /\ UNCHANGED <<csvVars, cacheVars>>
    /\ UNCHANGED exceptSs

\* Line 59: s.mu.Lock() returns.
PutLock(p) ==
    /\ ssProc[p].pc = "wlock"
    /\ CanLock
    /\ ssWriter' = p
    /\ ssProc' = [ssProc EXCEPT ![p].pc = "write"]
    /\ UNCHANGED <<ssM, ssReaders, ssDone, ssLast>>
    /\ UNCHANGED <<csvVars, cacheVars>>
    /\ UNCHANGED exceptSs

\* Line 61: s.m[hostname] = result begins: the entry is neither old nor new.
PutWriteBegin(p) ==
    /\ ssProc[p].pc = "write"
    /\ ssM' = SimpleStorePut(ssM, ssProc[p].hostname, Torn)
    /\ ssProc' = [ssProc EXCEPT ![p].pc = "writing"]
    /\ UNCHANGED <<ssWriter, ssReaders, ssDone, ssLast>>
    /\ UNCHANGED <<csvVars, cacheVars>>
    /\ UNCHANGED exceptSs

\* Line 61: s.m[hostname] = result ends.
PutWriteEnd(p) ==
    /\ ssProc[p].pc = "writing"
    /\ ssM' = SimpleStorePut(ssM, ssProc[p].hostname, ssProc[p].result)
    /\ ssDone' = ssDone \cup {<<ssProc[p].hostname, ssProc[p].result>>}
    /\ ssProc' = [ssProc EXCEPT ![p].pc = "wunlock"]
    /\ UNCHANGED <<ssWriter, ssReaders, ssLast>>
    /\ UNCHANGED <<csvVars, cacheVars>>
    /\ UNCHANGED exceptSs

\* Lines 60, 62: return nil, and the deferred Unlock runs.
PutUnlock(p) ==
    /\ ssProc[p].pc = "wunlock"
    /\ ssWriter' = 0
    /\ ssLast' = [op |-> "put", hostname |-> ssProc[p].hostname,
                  result |-> ssProc[p].result, err |-> "nil"]
    /\ ssProc' = [ssProc EXCEPT ![p] = IdleProc]
    /\ UNCHANGED <<ssM, ssReaders, ssDone>>
    /\ UNCHANGED <<csvVars, cacheVars>>
    /\ UNCHANGED exceptSs

NextStore ==
    \E p \in Procs :
        \/ GetRLock(p)
        \/ GetRead(p)
        \/ GetRUnlock(p)
        \/ PutCall(p)
        \/ PutLock(p)
        \/ PutWriteBegin(p)
        \/ PutWriteEnd(p)
        \/ PutUnlock(p)

InitStore ==
    /\ CSVNotRun
    /\ CacheIdle
    /\ OthersIdle

SpecStore == InitStore /\ [][NextStore]_vars

\* The goroutines between Lock and Unlock.
InWrite == {p \in Procs : ssProc[p].pc \in {"write", "writing", "wunlock"}}

\* The goroutines between RLock and RUnlock.
InRead == {p \in Procs : ssProc[p].pc \in {"read", "runlock"}}

\* What a get returned is a miss or the result of a put whose write has ended.
MissOrCompletedPut(hostname, result, err) ==
    \/ err = "notfound" /\ result = ZeroResult
    \/ err = "nil" /\ <<hostname, result>> \in ssDone

\* C17: at most one goroutine is between Lock and Unlock and then none is
\* between RLock and RUnlock; what a get has read, and what it returns, is a
\* miss or the result of a completed put, never an entry that is being
\* written; a put returns no error.
C17_SafeUnderConcurrency ==
    /\ Cardinality(InWrite) <= 1
    /\ InWrite # {} => InRead = {}
    /\ \A p \in Procs :
          ssProc[p].pc = "runlock" =>
              MissOrCompletedPut(ssProc[p].hostname, ssProc[p].result, ssProc[p].err)
    /\ ssLast.op = "get" => MissOrCompletedPut(ssLast.hostname, ssLast.result, ssLast.err)
    /\ ssLast.op = "put" => ssLast.err = "nil"

\* Two goroutines are between RLock and RUnlock at once, one of them having
\* read the result of a completed put, after a put has returned.
C17_Witness ==
    /\ \E p, q \in Procs :
          /\ p # q
          /\ ssProc[p].pc = "runlock"
          /\ ssProc[p].err = "nil"
          /\ ssProc[q].pc = "read"
    /\ ssLast.op = "put"

----------------------------------------------------------------------------
(* Validator *)

\* The domains of the stores and the lists of hostnames they may have.
ValDomains == {"a", "fail", "error", "normal"}

ValHostnames == {<<"hostname">>, <<"hostname", "hostname2">>}

\* The maps a mockDomainPolicyStore is made with.
ValStores ==
    UNION {[D -> ValHostnames] : D \in SUBSET ValDomains}

\* A slip: the first domain of the map is left out.
DomainsToValidateButOne(m) ==
    IF DOMAIN m = {} THEN {} ELSE DOMAIN m \ {CHOOSE d \in DOMAIN m : TRUE}

\* mockDomainPolicyStore.DomainsToValidate: the keys of the map, in the order
\* the range over the map gives them, which is any order.
DomainsToValidate(m) == DOMAIN m

\* A slip: every domain gets the hostnames of one and the same domain.
HostnamesForDomainOfFirst(m, domain) == m[CHOOSE d \in DOMAIN m : TRUE]

\* mockDomainPolicyStore.HostnamesForDomain
HostnamesForDomain(m, domain) == m[domain]

\* The check function of TestRegularValidationReportsErrors.
fakeChecker(domain, hostnames) ==
    IF domain = "fail" \/ domain = "error" THEN [Status |-> 5] ELSE [Status |-> 0]

\* The verdict's status is not success.
NotSuccess(verdict) == verdict.Status # 0

\* mockValidate: a Validator named "mock" over the map, not yet started.
InitValidator ==
    /\ CSVNotRun
    /\ CacheIdle
    /\ DurableIdle
    /\ SimpleStoreIdle
    /\ QueueableIdle
    /\ QueueIdle
    /\ DomainResultIdle
    /\ PolicyListIdle
    /\ TotalsIdle
    /\ vName = "mock"
    /\ vStore \in ValStores
    /\ vPc = "idle"
    /\ vTodo = {}
    /\ vCall = NoCall
    /\ vCalls = {}
    /\ vReported = {}
    /\ vReports = {}
    /\ vTicks = 0
    /\ vEvent = NoEvent

\* validator.Start()
ValidatorStart ==
    /\ vPc = "idle"
    /\ vPc' = "wait"
    /\ vEvent' = [kind |-> "start", domain |-> ""]
    /\ UNCHANGED <<vName, vStore, vTodo, vCall, vCalls, vReported, vReports, vTicks>>
    /\ UNCHANGED <<csvVars, cacheVars>>
    /\ UNCHANGED exceptVal

\* The interval has passed: the domain set is fetched from the store.
ValidatorTick ==
    /\ vPc = "wait"
    /\ vPc' = "loop"
    /\ vTodo' = DomainsToValidate(vStore)
    /\ vCalls' = {}
    /\ vReported' = {}
    /\ vTicks' = IF vTicks < MaxTicksCounted THEN vTicks + 1 ELSE vTicks
    /\ vEvent' = [kind |-> "tick", domain |-> ""]
    /\ UNCHANGED <<vName, vStore, vCall, vReports>>
    /\ UNCHANGED <<csvVars, cacheVars>>
    /\ UNCHANGED exceptVal

\* For the next domain: its hostnames are fetched and the check function is
\* called with the domain and the hostnames.
ValidatorCheck ==
    /\ vPc = "loop"
    /\ \E domain \in vTodo :
          LET hostnames == HostnamesForDomain(vStore, domain)
              call == [domain |-> domain, hostnames |-> hostnames,
                       verdict |-> fakeChecker(domain, hostnames)]
          IN  /\ vCall' = call
              /\ vCalls' = vCalls \cup {call}
              /\ vTodo' = vTodo \ {domain}
              /\ vEvent' = [kind |-> "check", domain |-> domain]
    /\ vPc' = "checked"
    /\ UNCHANGED <<vName, vStore, vReported, vReports, vTicks>>
    /\ UNCHANGED <<csvVars, cacheVars>>
    /\ UNCHANGED exceptVal

\* The check function has returned: the failure reporter is called with the
\* name, the domain and the verdict if the verdict's status is not success.
ValidatorVerdict ==
    /\ vPc = "checked"
    /\ IF NotSuccess(vCall.verdict)
       THEN /\ vReports' = vReports \cup {[name |-> vName, domain |-> vCall.domain,
                                           verdict |-> vCall.verdict]}
            /\ vReported' = vReported \cup {vCall.domain}
            /\ vEvent' = [kind |-> "report", domain |-> vCall.domain]
       ELSE /\ vEvent' = [kind |-> "pass", domain |-> vCall.domain]
            /\ UNCHANGED <<vReports, vReported>>
    /\ vPc' = "loop"
    /\ UNCHANGED <<vName, vStore, vTodo, vCall, vCalls, vTicks>>
    /\ UNCHANGED <<csvVars, cacheVars>>
    /\ UNCHANGED exceptVal

\* Every domain of the tick has been checked: the validator waits for the
\* next tick.
ValidatorTickEnd ==
    /\ vPc = "loop"
    /\ vTodo = {}
    /\ vPc' = "wait"
    /\ vEvent' = [kind |-> "sleep", domain |-> ""]
    /\ UNCHANGED <<vName, vStore, vTodo, vCall, vCalls, vReported, vReports, vTicks>>
    /\ UNCHANGED <<csvVars, cacheVars>>
    /\ UNCHANGED exceptVal

NextValidator ==
    \/ ValidatorStart
    \/ ValidatorTick
    \/ ValidatorCheck
    \/ ValidatorVerdict
    \/ ValidatorTickEnd

\* The timer fires after every interval, and the store, the check function
\* and the reporter return.
SpecValidator == InitValidator /\ [][NextValidator]_vars /\ WF_vars(NextValidator)

\* A tick has run to its end.
TickEnded == vPc = "wait" /\ vTicks >= 1

\* C11: in every tick the check function is called with a domain of the store
\* and the hostnames the store has for it, and by the end of the tick with
\* every domain of the store; once the verdict of a call has been acted on, the
\* domain has been reported in this tick iff the verdict's status is not
\* success; every report ever made carries this validator's name, a domain of
\* the store and a verdict that is not success; "fail" and "error" are
\* reported in every tick and "normal" in none.
C11_ReportIffNotSuccess ==
    /\ \A c \in vCalls : c.domain \in DOMAIN vStore /\ c.hostnames = vStore[c.domain]
    /\ TickEnded => {c.domain : c \in vCalls} = DOMAIN vStore
    /\ \A c \in vCalls :
          \/ vPc = "checked" /\ c = vCall
          \/ (c.domain \in vReported) <=> (c.verdict.Status # 0)
    /\ \A r \in vReports :
          /\ r.name = "mock"
          /\ r.domain \in DOMAIN vStore
          /\ r.verdict.Status # 0
          /\ r.domain # "normal"
    /\ TickEnded => vReported = DOMAIN vStore \cap {"fail", "error"}

\* The second tick over a store with "fail", "error" and "normal" has ended
\* with "fail" and "error" reported and "normal" checked and not reported.
C11_Witness ==
    /\ vPc = "wait"
    /\ vTicks = 2
    /\ {"fail", "error", "normal"} \subseteq DOMAIN vStore
    /\ vReported = {"fail", "error"}
    /\ \E c \in vCalls : c.domain = "normal" /\ c.verdict.Status = 0

\* C12: the validator is started, and from then on every domain of the store
\* is checked again and again, and every domain whose check fails every time
\* is reported again and again.
C12_CheckedInfinitelyOften ==
    \A d \in ValDomains :
        (d \in DOMAIN vStore) =>
            /\ []<>(vEvent = [kind |-> "check", domain |-> d])
            /\ (d \in {"fail", "error"}) => []<>(vEvent = [kind |-> "report", domain |-> d])

\* A domain of a store with several domains is reported in a tick after the
\* first.
C12_Witness ==
    /\ vTicks >= 2
    /\ vEvent.kind = "report"
    /\ Cardinality(DOMAIN vStore) >= 2

----------------------------------------------------------------------------
(* Domain.IsQueueable *)

\* Hostnames and MX patterns, as sequences of labels; "*" is the wildcard.
IqHostnames == {<<"mx", "example">>, <<"mail", "example">>, <<"mx", "other">>}

IqPatterns == {<<"mx", "example">>, <<"*", "example">>}

\* One pattern matches a hostname: the same labels, or a leading wildcard
\* label followed by the hostname's other labels.
PatternMatches(hostname, pattern) ==
    \/ pattern = hostname
    \/ /\ Len(pattern) = Len(hostname)
       /\ Len(pattern) > 0
       /\ pattern[1] = "*"
       /\ Tail(pattern) = Tail(hostname)

\* checker.PolicyMatches(hostname, mxs): some pattern matches the hostname.
PolicyMatches(hostname, mxs) ==
    \E i \in 1..Len(mxs) : PatternMatches(hostname, mxs[i])

\* scan.SupportsMTASTS()
SupportsMTASTS(scan) == scan.mtasts

\* A slip: only the first preferred hostname is held against the patterns.
IsQueueableFirstHostname(q) ==
    IF q.scanErr # "nil" THEN FALSE
    ELSE IF q.scan.Status # 0 THEN FALSE
    ELSE IF q.onList THEN FALSE
    ELSE IF q.enforceErr = "nil" THEN FALSE
    ELSE IF q.MTASTSMode = ""
    THEN Len(q.scan.PreferredHostnames) = 0
            \/ PolicyMatches(q.scan.PreferredHostnames[1], q.MXs)
    ELSE SupportsMTASTS(q.scan)

\* Domain.IsQueueable, given the domain's fields and what GetLatestScan,
\* HasDomain and GetDomain(name, StateEnforce) return: its first result.
IsQueueable(q) ==
    IF q.scanErr # "nil" THEN FALSE
    ELSE IF q.scan.Status # 0 THEN FALSE
    ELSE IF q.onList THEN FALSE
    ELSE IF q.enforceErr = "nil" THEN FALSE
    ELSE IF q.MTASTSMode = ""
    THEN ~(\E i \in 1..Len(q.scan.PreferredHostnames) :
              ~PolicyMatches(q.scan.PreferredHostnames[i], q.MXs))
    ELSE IF ~SupportsMTASTS(q.scan) THEN FALSE
    ELSE TRUE

\* The scans GetLatestScan may return: with an error, the zero scan.
IqScans ==
    [Status : {0, 3}, PreferredHostnames : SeqsUpTo(IqHostnames, MaxPreferred),
     mtasts : BOOLEAN]

IqQueries ==
    {q \in [Name : {"example.com"}, MTASTSMode : {"", "testing", "enforce"},
             MXs : SeqsUpTo(IqPatterns, MaxMXs), scan : IqScans,
             scanErr : {"nil", "notfound"}, onList : BOOLEAN,
             enforceErr : {"nil", "notfound"}] :
        q.scanErr # "nil" => q.scan = NoScan}

InitQueueable ==
    /\ CSVNotRun
    /\ CacheIdle
    /\ ValidatorIdle
    /\ DurableIdle
    /\ SimpleStoreIdle
    /\ QueueIdle
    /\ DomainResultIdle
    /\ PolicyListIdle
    /\ TotalsIdle
    /\ iqIn \in IqQueries
    /\ iqOut = "none"

\* d.IsQueueable(domains, scans, list) is called and returns.
CallIsQueueable ==
    /\ iqOut = "none"
    /\ iqOut' = IF IsQueueable(iqIn) THEN "true" ELSE "false"
    /\ UNCHANGED iqIn
    /\ UNCHANGED <<csvVars, cacheVars>>
    /\ UNCHANGED exceptIq

NextQueueable ==
    \/ CallIsQueueable

SpecQueueable == InitQueueable /\ [][NextQueueable]_vars

\* C15: IsQueueable returns true iff GetLatestScan gave a scan, the scan's
\* status is 0, the policy list does not have the domain, GetDomain found no
\* record in the state 'added', and either MTASTSMode is empty and every
\* preferred hostname matches one of the MX patterns, or MTASTSMode is not
\* empty and the scan supports MTA-STS; a domain without a scan and a domain
\* on the list are not queueable.
C15_QueueableIff ==
    iqOut # "none" =>
        /\ (iqOut = "true") <=>
              /\ iqIn.scanErr = "nil"
              /\ iqIn.scan.Status = 0
              /\ ~iqIn.onList
              /\ iqIn.enforceErr # "nil"
              /\ \/ /\ iqIn.MTASTSMode = ""
                    /\ \A i \in 1..Len(iqIn.scan.PreferredHostnames) :
                          \E j \in 1..Len(iqIn.MXs) :
                              LET h == iqIn.scan.PreferredHostnames[i]
                                  m == iqIn.MXs[j]
                              IN  h = m \/ (m[1] = "*" /\ h[2] = m[2])
                 \/ /\ iqIn.MTASTSMode # ""
                    /\ iqIn.scan.mtasts
        /\ iqIn.scanErr # "nil" => iqOut = "false"
        /\ iqIn.onList => iqOut = "false"

\* A domain without MTA-STS whose two preferred hostnames match the patterns,
\* the second only through the wildcard, was found queueable.
C15_Witness ==
    /\ iqOut = "true"
    /\ iqIn.MTASTSMode = ""
    /\ Len(iqIn.scan.PreferredHostnames) = 2
    /\ iqIn.scan.PreferredHostnames[2] = <<"mail", "example">>

----------------------------------------------------------------------------
(* The queue workflow: POST /api/queue and POST /api/validate *)

StateUnconfirmed == "unvalidated"

StateTesting == "queued"

StateEnforce == "added"

\* DomainStore.PutDomain: the record of the domain is written with its state.
PutDomain(db, d) == [db EXCEPT !.state[d.Name] = d.State]

\* tokenStore.PutToken: the domain gets a new token in place of the one it had.
PutToken(db, name) ==
    [db EXCEPT !.tokens[name] = [token |-> db.next, used |-> FALSE],
               !.next = db.next + 1]

\* The domains whose token is the given one and has not been used.
TokenOwners(db, token) ==
    {d \in QDomains : db.tokens[d].token = token /\ ~db.tokens[d].used}

\* tokenStore.UseToken: the token's domain, the token now used; an error for
\* a token that is not in the store or has been used.
UseToken(db, token) ==
    IF TokenOwners(db, token) = {}
    THEN [db |-> db, domain |-> "", err |-> "invalid"]
    ELSE LET d == CHOOSE x \in TokenOwners(db, token) : TRUE
         IN  [db |-> [db EXCEPT !.tokens[d].used = TRUE], domain |-> d, err |-> "nil"]

\* DomainStore.SetStatus
SetStatus(db, name, state) == [db EXCEPT !.state[name] = state]

\* A slip: the domain is not added to the store.
InitializeWithTokenOnly(db, d, putDomainErr, putTokenErr) ==
    IF putTokenErr # "nil"
    THEN [db |-> db, token |-> 0, err |-> putTokenErr]
    ELSE [db |-> PutToken(db, d.Name), token |-> PutToken(db, d.Name).tokens[d.Name].token,
          err |-> "nil"]

\* A slip: the token is created before the domain is stored.
InitializeWithTokenFirst(db, d, putDomainErr, putTokenErr) ==
    IF putTokenErr # "nil"
    THEN [db |-> db, token |-> 0, err |-> putTokenErr]
    ELSE IF putDomainErr # "nil"
    THEN [db |-> PutToken(db, d.Name), token |-> 0, err |-> putDomainErr]
    ELSE [db |-> PutToken(PutDomain(db, d), d.Name),
          token |-> PutToken(PutDomain(db, d), d.Name).tokens[d.Name].token,
          err |-> "nil"]

\* A slip: a domain that has a token keeps it.
InitializeWithTokenKept(db, d, putDomainErr, putTokenErr) ==
    IF putDomainErr # "nil"
    THEN [db |-> db, token |-> 0, err |-> putDomainErr]
    ELSE IF putTokenErr # "nil"
    THEN [db |-> PutDomain(db, d), token |-> 0, err |-> putTokenErr]
    ELSE IF db.tokens[d.Name] # NoTokenRow
    THEN [db |-> PutDomain(db, d), token |-> db.tokens[d.Name].token, err |-> "nil"]
    ELSE [db |-> PutToken(PutDomain(db, d), d.Name),
          token |-> PutToken(PutDomain(db, d), d.Name).tokens[d.Name].token,
          err |-> "nil"]

\* Domain.InitializeWithToken, given the errors PutDomain and PutToken return:
\* the database afterwards, the token and the error returned.
InitializeWithToken(db, d, putDomainErr, putTokenErr) ==
    IF putDomainErr # "nil"
    THEN [db |-> db, token |-> 0, err |-> putDomainErr]
    ELSE IF putTokenErr # "nil"
    THEN [db |-> PutDomain(db, d), token |-> 0, err |-> putTokenErr]
    ELSE [db |-> PutToken(PutDomain(db, d), d.Name),
          token |-> PutToken(PutDomain(db, d), d.Name).tokens[d.Name].token,
          err |-> "nil"]

\* What IsQueueable is asked for a domain of a queue request.
QueueQuery(name) ==
    [Name |-> name, MTASTSMode |-> "", MXs |-> << <<"mx", "example">> >>,
     scan |-> IF qEnv[name].scanned
              THEN [Status |-> 0, PreferredHostnames |-> << <<"mx", "example">> >>,
                    mtasts |-> FALSE]
              ELSE NoScan,
     scanErr |-> IF qEnv[name].scanned THEN "nil" ELSE "notfound",
     onList |-> qEnv[name].onList,
     enforceErr |-> IF qDb.state[name] = StateEnforce THEN "nil" ELSE "notfound"]

InitQueue ==
    /\ CSVNotRun
    /\ CacheIdle
    /\ ValidatorIdle
    /\ DurableIdle
    /\ SimpleStoreIdle
    /\ QueueableIdle
    /\ DomainResultIdle
    /\ PolicyListIdle
    /\ TotalsIdle
    /\ qEnv \in [QDomains -> [scanned : BOOLEAN, onList : BOOLEAN]]
    /\ \E added \in SUBSET QDomains :
          qDb = [EmptyDb EXCEPT !.state = [d \in QDomains |->
                                            IF d \in added THEN StateEnforce ELSE ""]]
    /\ qIssued = {}
    /\ qRedeemed = EmptyBag
    /\ qLast = NoRequest

\* POST /api/queue for a domain: 400 for a domain that is not queueable,
\* otherwise the domain is initialized as unvalidated with a token.
Queue ==
    /\ qDb.next <= MaxTokens
    /\ \E name \in QDomains, putDomainErr \in {"nil", "db"}, putTokenErr \in {"nil", "db"} :
          IF ~IsQueueable(QueueQuery(name))
          THEN /\ qLast' = [op |-> "queue", domain |-> name, token |-> 0, status |-> 400,
                            body |-> "", err |-> "nil"]
               /\ UNCHANGED <<qDb, qIssued>>
          ELSE LET r == InitializeWithToken(qDb, [Name |-> name, State |-> StateUnconfirmed],
                                           putDomainErr, putTokenErr)
               IN  /\ qDb' = r.db
                   /\ qIssued' = IF r.err = "nil" THEN qIssued \cup {<<r.token, name>>}
                                 ELSE qIssued
                   /\ qLast' = [op |-> "queue", domain |-> name, token |-> r.token,
                                status |-> IF r.err = "nil" THEN 200 ELSE 500,
                                body |-> "", err |-> r.err]
    /\ UNCHANGED <<qEnv, qRedeemed>>
    /\ UNCHANGED <<csvVars, cacheVars>>
    /\ UNCHANGED exceptQ

\* POST /api/validate with a token: 400 for a token that cannot be used,
\* otherwise the token's domain becomes queued and its name is the response.
Validate ==
    /\ \E token \in 1..(MaxTokens + 1) :
          LET u == UseToken(qDb, token)
          IN  IF u.err # "nil"
              THEN /\ qLast' = [op |-> "validate", domain |-> "", token |-> token,
                                status |-> 400, body |-> "", err |-> u.err]
                   /\ UNCHANGED <<qDb, qRedeemed>>
              ELSE /\ qDb' = SetStatus(u.db, u.domain, StateTesting)
                   /\ qRedeemed' = qRedeemed (+) One(token)
                   /\ qLast' = [op |-> "validate", domain |-> u.domain, token |-> token,
                                status |-> 200, body |-> u.domain, err |-> "nil"]
    /\ UNCHANGED <<qEnv, qIssued>>
    /\ UNCHANGED <<csvVars, cacheVars>>
    /\ UNCHANGED exceptQ

NextQueue ==
    \/ Queue
    \/ Validate

SpecQueue == InitQueue /\ [][NextQueue]_vars

\* The token that was issued last for a domain that has been issued one.
Latest(d) ==
    CHOOSE t \in {i[1] : i \in {j \in qIssued : j[2] = d}} :
        \A i \in qIssued : i[2] = d => i[1] <= t

\* The tokens issued for domain d that a validate request would accept now.
Redeemable(d) ==
    {t \in 1..(MaxTokens + 1) :
        <<t, d>> \in qIssued /\ qDb.tokens[d].token = t /\ ~qDb.tokens[d].used}

----------------------------------------------------------------------------
(* The DomainResult of one domain check *)

\* The hostnames the MX lookup may give.
DrHostnames == {"mx1", "mx2", "mx3"}

\* The status of a hostname result: success, warning, failure.
DrStatuses == {0, 1, 2}

\* What the MTA-STS check may give: nil, a result whose patterns are all
\* satisfied, or a result with a cross-validation inconsistency, which weighs
\* as a warning or as a failure.
DrMTASTS ==
    {NoMTASTS, [found |-> TRUE, consistent |-> TRUE, severity |-> 0],
     [found |-> TRUE, consistent |-> FALSE, severity |-> 1],
     [found |-> TRUE, consistent |-> FALSE, severity |-> 2]}

\* The most severe status of a set of statuses, success for the empty set.
MostSevere(S) == IF S = {} THEN 0 ELSE CHOOSE x \in S : \A y \in S : y <= x

\* The statuses of the hostname results.
HostnameStatuses(hostnameResults) == {hostnameResults[h] : h \in DOMAIN hostnameResults}

\* A slip: the status is the least severe of the parts.
ComposeStatusLeast(hostnameResults, mtasts) ==
    IF HostnameStatuses(hostnameResults) = {} THEN 0
    ELSE CHOOSE x \in HostnameStatuses(hostnameResults) :
             \A y \in HostnameStatuses(hostnameResults) : x <= y

\* The overall status: the most severe of the hostname results' statuses and
\* of an MTA-STS cross-validation inconsistency, otherwise success.
ComposeStatus(hostnameResults, mtasts) ==
    MostSevere(HostnameStatuses(hostnameResults)
                   \cup (IF mtasts.found /\ ~mtasts.consistent THEN {mtasts.severity} ELSE {}))

InitDomainResult ==
    /\ CSVNotRun
    /\ CacheIdle
    /\ ValidatorIdle
    /\ DurableIdle
    /\ SimpleStoreIdle
    /\ QueueableIdle
    /\ QueueIdle
    /\ PolicyListIdle
    /\ TotalsIdle
    /\ \E H \in SUBSET DrHostnames :
          drIn \in [hostnames : [H -> DrStatuses], mtasts : DrMTASTS]
    /\ drOut = NoDomainResult

\* The domain check composes the DomainResult from the hostname results and
\* the MTA-STS result.
ComposeDomainResult ==
    /\ ~drOut.made
    /\ drOut' = [made |-> TRUE, HostnameResults |-> drIn.hostnames,
                 MTASTSResult |-> drIn.mtasts,
                 Status |-> ComposeStatus(drIn.hostnames, drIn.mtasts)]
    /\ UNCHANGED drIn
    /\ UNCHANGED <<csvVars, cacheVars>>
    /\ UNCHANGED exceptDr

NextDomainResult ==
    \/ ComposeDomainResult

SpecDomainResult == InitDomainResult /\ [][NextDomainResult]_vars

\* Some hostname result has the status and none has a more severe one.
IsMostSevereHostnameStatus(status) ==
    /\ \E h \in DOMAIN drOut.HostnameResults : drOut.HostnameResults[h] = status
    /\ \A h \in DOMAIN drOut.HostnameResults : drOut.HostnameResults[h] <= status

----------------------------------------------------------------------------
(* Domain.PolicyListCheck *)

\* The names in the store and on the list; the check is made for any of them.
PlNames == {"example.com", "eff.org"}

\* The states a record of the store may be in.
PlStates == {StateEnforce, StateTesting, StateUnconfirmed}

\* list.HasDomain(name)
HasDomain(list, name) == name \in list

\* The error of store.GetDomain(name, state): nil when the store holds a
\* record of the name in that state.
GetDomainErr(domains, name, state) == IF <<name, state>> \in domains THEN "nil" ELSE "notfound"

\* checker.Result{Name: checker.PolicyList}
NewCheckResult(domain) ==
    [domain |-> domain, Name |-> "policylist", Status |-> "", Message |-> "", sets |-> 0]

\* result.Success(), result.Warning(message), result.Failure(message): the
\* severity and the message are set together.
Success(result) ==
    [result EXCEPT !.Status = "success", !.Message = "", !.sets = result.sets + 1]

Warning(result, message) ==
    [result EXCEPT !.Status = "warning", !.Message = message, !.sets = result.sets + 1]

Failure(result, message) ==
    [result EXCEPT !.Status = "failure", !.Message = message, !.sets = result.sets + 1]

\* A slip: the unconfirmed state is looked up before the testing state.
PolicyListCheckUnconfirmedFirst(name, domains, list) ==
    IF HasDomain(list, name) THEN Success(NewCheckResult(name))
    ELSE IF GetDomainErr(domains, name, StateEnforce) = "nil"
    THEN Success(NewCheckResult(name))
    ELSE IF GetDomainErr(domains, name, StateUnconfirmed) = "nil"
    THEN Failure(NewCheckResult(name), "waiting")
    ELSE IF GetDomainErr(domains, name, StateTesting) = "nil"
    THEN Warning(NewCheckResult(name), "queued")
    ELSE Failure(NewCheckResult(name), "notonlist")

\* Domain.PolicyListCheck for the domain of the given name.
PolicyListCheck(name, domains, list) ==
    IF HasDomain(list, name) THEN Success(NewCheckResult(name))
    ELSE IF GetDomainErr(domains, name, StateEnforce) = "nil"
    THEN Success(NewCheckResult(name))
    ELSE IF GetDomainErr(domains, name, StateTesting) = "nil"
    THEN Warning(NewCheckResult(name), "queued")
    ELSE IF GetDomainErr(domains, name, StateUnconfirmed) = "nil"
    THEN Failure(NewCheckResult(name), "waiting")
    ELSE Failure(NewCheckResult(name), "notonlist")

InitPolicyList ==
    /\ CSVNotRun
    /\ CacheIdle
    /\ ValidatorIdle
    /\ DurableIdle
    /\ SimpleStoreIdle
    /\ QueueableIdle
    /\ QueueIdle
    /\ DomainResultIdle
    /\ TotalsIdle
    /\ plStore \in SUBSET (PlNames \X PlStates)
    /\ plList \in SUBSET PlNames
    /\ plOut = NoCheckResult

\* d.PolicyListCheck(store, list) is called and returns.
CallPolicyListCheck ==
    /\ plOut = NoCheckResult
    /\ \E name \in PlNames : plOut' = PolicyListCheck(name, plStore, plList)
    /\ UNCHANGED <<plStore, plList>>
    /\ UNCHANGED <<csvVars, cacheVars>>
    /\ UNCHANGED exceptPl

NextPolicyList ==
    \/ CallPolicyListCheck

SpecPolicyList == InitPolicyList /\ [][NextPolicyList]_vars

\* C21: the result returned has had its severity set exactly once, and the
\* severity is success for a domain on the list, else success for a domain
\* the store has as added, else warning for one it has as queued, else
\* failure; the call leaves the store and the list as they were.
C21_FirstMatchingRule ==
    /\ [](plOut # NoCheckResult =>
             /\ plOut.sets = 1
             /\ plOut.Status =
                   (IF plOut.domain \in plList THEN "success"
                    ELSE IF <<plOut.domain, "added">> \in plStore THEN "success"
                    ELSE IF <<plOut.domain, "queued">> \in plStore THEN "warning"
                    ELSE IF <<plOut.domain, "unvalidated">> \in plStore THEN "failure"
                    ELSE "failure"))
    /\ [][plStore' = plStore /\ plList' = plList]_vars

\* A domain that is not on the list and that the store has both as queued
\* and as unvalidated, and not as added, got a warning.
C21_Witness ==
    /\ plOut.Status = "warning"
    /\ plOut.sets = 1
    /\ plOut.domain \notin plList
    /\ <<plOut.domain, "queued">> \in plStore
    /\ <<plOut.domain, "unvalidated">> \in plStore
    /\ <<plOut.domain, "added">> \notin plStore

----------------------------------------------------------------------------
(* DomainTotals.HandleDomain *)

\* The results HandleDomain is given: the domain, the number of hostname
\* results, and the mode of the MTA-STS result, "nil" for no MTA-STS result.
TotalsResults ==
    [Domain : {"a", "b"}, hosts : {0, 1, 2}, mtasts : {"nil", "enforce", "testing", "none"}]

\* A slip: a result without hostname results is counted like the others.
HandleDomainCountAll(t, r) ==
    LET t1 == [t EXCEPT !.Attempted = t.Attempted + 1]
        t2 == [t1 EXCEPT !.WithMXs = t1.WithMXs + 1]
    IN  IF r.mtasts # "nil"
        THEN IF r.mtasts = "enforce"
             THEN [t2 EXCEPT !.MTASTSEnforce = Append(t2.MTASTSEnforce, r.Domain)]
             ELSE IF r.mtasts = "testing"
             THEN [t2 EXCEPT !.MTASTSTesting = Append(t2.MTASTSTesting, r.Domain)]
             ELSE t2
        ELSE t2

\* DomainTotals.HandleDomain(r): the totals after the call. The progress log
\* of every thousandth call changes nothing.
HandleDomain(t, r) ==
    LET t1 == [t EXCEPT !.Attempted = t.Attempted + 1]
        t2 == [t1 EXCEPT !.WithMXs = t1.WithMXs + 1]
    IN  IF r.hosts = 0 THEN t1
        ELSE IF r.mtasts # "nil"
        THEN IF r.mtasts = "enforce"
             THEN [t2 EXCEPT !.MTASTSEnforce = Append(t2.MTASTSEnforce, r.Domain)]
             ELSE IF r.mtasts = "testing"
             THEN [t2 EXCEPT !.MTASTSTesting = Append(t2.MTASTSTesting, r.Domain)]
             ELSE t2
        ELSE t2

InitTotals ==
    /\ CSVNotRun
    /\ CacheIdle
    /\ ValidatorIdle
    /\ DurableIdle
    /\ SimpleStoreIdle
    /\ QueueableIdle
    /\ QueueIdle
    /\ DomainResultIdle
    /\ PolicyListIdle
    /\ totals = NewTotals
    /\ handledResults = << >>

\* t.HandleDomain(r) is called and returns.
CallHandleDomain ==
    /\ Len(handledResults) < MaxHandled
    /\ \E r \in TotalsResults :
          /\ totals' = HandleDomain(totals, r)
          /\ handledResults' = Append(handledResults, r)
    /\ UNCHANGED <<csvVars, cacheVars>>
    /\ UNCHANGED exceptDt

NextTotals ==
    \/ CallHandleDomain

SpecTotals == InitTotals /\ [][NextTotals]_vars

\* The calls whose result had at least one hostname result.
CallsWithHosts == {i \in 1..Len(handledResults) : handledResults[i].hosts > 0}

\* Every domain of the list comes from a call whose result had hostname
\* results and an MTA-STS result of the mode.
ListedOnlyFor(list, mode) ==
    \A i \in 1..Len(list) :
        \E j \in CallsWithHosts :
            handledResults[j].Domain = list[i] /\ handledResults[j].mtasts = mode

\* C22: Attempted is the number of calls and WithMXs the number of calls
\* whose result had a hostname result; MTASTSEnforce and MTASTSTesting hold
\* only domains of such calls with an MTA-STS result of that mode; the two
\* lists together are no longer than WithMXs, which is at most Attempted; a
\* call with a result without hostname results adds one to Attempted and
\* changes nothing else.
C22_TotalsCount ==
    /\ [](/\ totals.Attempted = Len(handledResults)
          /\ totals.WithMXs = Cardinality(CallsWithHosts)
          /\ ListedOnlyFor(totals.MTASTSEnforce, "enforce")
          /\ ListedOnlyFor(totals.MTASTSTesting, "testing")
          /\ Len(totals.MTASTSTesting) + Len(totals.MTASTSEnforce) <= totals.WithMXs
          /\ totals.WithMXs <= totals.Attempted)
    /\ [][(Len(handledResults') = Len(handledResults) + 1
             /\ handledResults'[Len(handledResults')].hosts = 0) =>
               /\ totals'.Attempted = totals.Attempted + 1
               /\ totals'.WithMXs = totals.WithMXs
               /\ totals'.MTASTSTesting = totals.MTASTSTesting
               /\ totals'.MTASTSEnforce = totals.MTASTSEnforce]_vars

\* Three results have been handled: one in enforce mode, one in testing
\* mode and last one without hostname results, which carried an MTA-STS
\* result and was counted in Attempted only.
C22_Witness ==
    /\ Len(handledResults) = 3
    /\ handledResults[3].hosts = 0
    /\ handledResults[3].mtasts = "enforce"
    /\ totals.Attempted = 3
    /\ totals.WithMXs = 2
    /\ Len(totals.MTASTSEnforce) = 1
    /\ Len(totals.MTASTSTesting) = 1

----------------------------------------------------------------------------
(* Domain.InitializeWithToken against stores that can fail *)

\* The stores before the first call: any record for each domain, no token.
InitInitToken ==
    /\ CSVNotRun
    /\ CacheIdle
    /\ ValidatorIdle
    /\ DurableIdle
    /\ SimpleStoreIdle
    /\ QueueableIdle
    /\ DomainResultIdle
    /\ PolicyListIdle
    /\ TotalsIdle
    /\ qEnv = [d \in QDomains |-> [scanned |-> FALSE, onList |-> FALSE]]
    /\ \E states \in [QDomains -> {"", StateTesting, StateEnforce}] :
          qDb = [EmptyDb EXCEPT !.state = states]
    /\ qIssued = {}
    /\ qRedeemed = EmptyBag
    /\ qLast = NoRequest

\* d.InitializeWithToken(store, tokens) is called and returns; each of the
\* two stores answers with nil or with an error of its own. The call is
\* recorded with the state of d in the body field.
CallInitializeWithToken ==
    /\ qDb.next <= MaxTokens
    /\ \E name \in QDomains, state \in {StateUnconfirmed, StateTesting},
          putDomainErr \in {"nil", "putDomain"}, putTokenErr \in {"nil", "putToken"} :
          LET r == InitializeWithToken(qDb, [Name |-> name, State |-> state],
                                       putDomainErr, putTokenErr)
          IN  /\ qDb' = r.db
              /\ qLast' = [op |-> "init", domain |-> name, token |-> r.token, status |-> 0,
                            body |-> state, err |-> r.err]
    /\ UNCHANGED <<qEnv, qIssued, qRedeemed>>
    /\ UNCHANGED <<csvVars, cacheVars>>
    /\ UNCHANGED exceptQ

NextInitToken ==
    \/ CallInitializeWithToken

SpecInitToken == InitInitToken /\ [][NextInitToken]_vars

\* C23: a call whose PutDomain fails returns that error and no token and
\* leaves the domain store and the token store as they were; a call whose
\* PutDomain succeeds and whose PutToken fails returns that error and no
\* token, the domain record is written and stays, and the token store is as
\* it was; a call returns a token only without an error, after the domain
\* record and the new token have both been written.
C23_NoRollback ==
    [][qLast'.op = "init" =>
         /\ qLast'.err = "putDomain" => qLast'.token = 0 /\ qDb' = qDb
         /\ qLast'.err = "putToken" =>
               /\ qLast'.token = 0
               /\ qDb'.state = [qDb.state EXCEPT ![qLast'.domain] = qLast'.body]
               /\ qDb'.tokens = qDb.tokens
               /\ qDb'.next = qDb.next
         /\ (qLast'.token # 0) <=> (qLast'.err = "nil")
         /\ qLast'.token # 0 =>
               /\ qDb'.state[qLast'.domain] = qLast'.body
               /\ qDb'.tokens[qLast'.domain] = [token |-> qLast'.token, used |-> FALSE]
               /\ qDb.tokens[qLast'.domain].token # qLast'.token]_vars

\* PutToken failed for a domain that was on the list as added and had a
\* token from an earlier call: the call returned the error and no token, the
\* record is now the unvalidated one and the earlier token is still there.
C23_Witness ==
    /\ qLast.op = "init"
    /\ qLast.err = "putToken"
    /\ qLast.token = 0
    /\ qLast.body = StateUnconfirmed
    /\ qDb.state[qLast.domain] = StateUnconfirmed
    /\ qDb.tokens[qLast.domain] # NoTokenRow

====
